---- MODULE Spec2Model ----
(***************************************************************************)
(* Model of src/main.py (CloudLibrary audiobook downloader): the CLI flow  *)
(* of __main__, the generator download_books, the loan cache               *)
(* loaned_books_cache, borrow_book with its return-and-retry fallback,     *)
(* return_book and download_book.  The program is sequential: pc is the    *)
(* position of the single thread, and each action is one step of the code  *)
(* up to and including its next network request.  The lending server is    *)
(* the environment: it keeps the loan list (serverLoans) and answers every *)
(* request with one of the answers the code distinguishes.                 *)
(***************************************************************************)
EXTENDS Integers, Sequences, FiniteSets, TLC

\* ------------------------------------------------------------------ bounds
NumItems == 3
MaxCount == 3
MaxExternal == 1
MaxChapters == 2
LongBook == 10
MaxInvocations == 2

\* --------------------------------------------------------------- constants
Items == 1 .. NumItems
None == 0

\* The catalogue: the media type the server reports for an item.
MediaType(i) == IF i % 3 = 0 THEN "Epub" ELSE "Mp3"

VARIABLES
  pc,           \* position of the program
  args,         \* parsed command line: title (media id or None), release, cookie
  cookies,      \* names of the cookies in session.cookies
  cache,        \* loaned_books_cache: its keys, in dict insertion order
  serverLoans,  \* the loans the server holds, newest first (BorrowedDateDescending)
  brief,        \* media_meta_brief of download_books
  books,        \* books_to_download
  idx,          \* position of the for loop over books_to_download
  to_return,    \* to_return of borrow_book
  success,      \* result of borrow_book as seen by download_books
  exc,          \* the exception that ended the run, if any
  exitCode,     \* exit status of the process, -1 while running
  req,          \* observer: requests issued so far, per kind (saturating)
  downloads,    \* observer: completed download_book calls per item
  returnReqs,   \* observer: return_book requests per item, whoever issued them
  obs,          \* observer: flags about the run so far
  dl            \* download_book's chapter loop: its inputs, locals, files on disk

vars == << pc, args, cookies, cache, serverLoans, brief, books, idx, to_return,
           success, exc, exitCode, req, downloads, returnReqs, obs, dl >>

\* ----------------------------------------------------------------- helpers
Sat(n) == IF n < MaxCount THEN n + 1 ELSE MaxCount

Range(s) == { s[i] : i \in 1 .. Len(s) }

InjSeqs(S) ==
  { s \in UNION { [1 .. n -> S] : n \in 0 .. Cardinality(S) } :
      \A i, j \in 1 .. Len(s) : i # j => s[i] # s[j] }

RemoveItem(s, x) == SelectSeq(s, LAMBDA y : y # x)

NoBrief == [mediaType |-> "none", status |-> "none"]
NoExc == [kind |-> "none", escapes |-> {}]

\* for item in data: loaned_books_cache[item["itemId"]] = item
\* Assigning to a key the dict holds keeps the key's position; a new key is
\* appended.  Nothing is removed.
RECURSIVE MergeCache(_, _)
MergeCache(c, list) ==
  IF list = << >> THEN c
  ELSE MergeCache(IF Head(list) \in Range(c) THEN c ELSE Append(c, Head(list)),
                  Tail(list))

\* [x for x in loaned_books if x["itemId"] in media_ids]
\* (variant: the filter keeps every loan)
FilterLoaned_All(list, media_ids) == list

FilterLoaned(list, media_ids) == SelectSeq(list, LAMBDA x : x \in media_ids)

\* [x for x in list_loaned_books(library) if x["mediaType"] == "Mp3"]
FilterMp3(list) == SelectSeq(list, LAMBDA x : MediaType(x) = "Mp3")

\* list_loaned_books: the answers the call can get.  With use_cache and a
\* non-empty cache no request is made.
ListAnswers(use_cache) ==
  IF use_cache /\ cache # << >> THEN {"cached"}
  ELSE {"ok", "no_patronItems", "request_error"}

ListResult(answer) == IF answer = "cached" THEN cache ELSE serverLoans

\* get_book_metadata_brief: the answers the call can get for media_id.
BriefAnswers(media_id) ==
  IF media_id \in Range(cache) THEN {"cached"}
  ELSE {"ok", "forbidden", "no_book", "request_error"}

\* The status of the detail record: an item on loan is not loanable again.
BriefStatuses(media_id, answer) ==
  IF answer = "cached" \/ media_id \in Range(serverLoans) THEN {"ON_LOAN"}
  ELSE {"CAN_LOAN", "CAN_HOLD"}

BriefExc(answer) ==
  CASE answer = "forbidden" -> "PermissionError"
    [] answer = "no_book" -> "KeyError"
    [] OTHER -> "RequestException"

\* line 481: media_meta_brief["status"] != "CAN_LOAN" raises
\* (variant: the status is not looked at)
CanBorrow_Any(status) == TRUE

CanBorrow(status) == status = "CAN_LOAN"

\* line 262: error.get("reaktorErrorMessage") == "TOO_MANY_LOANS"
\* (variant: every reported error starts the fallback)
IsTooManyLoans_AnyError(answer) == answer \in {"too_many_loans", "error"}

IsTooManyLoans(answer) == answer = "too_many_loans"

\* return_book, lines 195-215: the value returned for an answer that arrived
\* (variant: the result of return_book is taken to be True)
ReturnSucceeded_Always(answer) == TRUE

ReturnSucceeded(answer) == answer = "ok"

\* Answers of the borrow and return endpoints, as return_book and borrow_book
\* tell them apart.
ReturnAnswers == {"ok", "status_not_200", "undecodable", "error", "failed",
                  "request_error"}
BorrowAnswers == {"ok", "status_not_200", "undecodable", "too_many_loans",
                  "error", "failed", "request_error"}

\* the chapter loop is not running
NoDl == [invocation |-> 0]

Raise(kind, escapes) ==
  /\ pc' = "raised"
  /\ exc' = [kind |-> kind, escapes |-> escapes]
  /\ exitCode' = 1

\* -------------------------------------------------------------------- Init
Init ==
  /\ pc = "main_cookies"
  /\ args \in [title : Items \cup {None}, release : BOOLEAN, cookie : BOOLEAN]
  /\ cookies = {}
  /\ cache = << >>
  /\ serverLoans \in InjSeqs(Items)
  /\ brief = NoBrief
  /\ books = << >>
  /\ idx = 1
  /\ to_return = None
  /\ success = FALSE
  /\ exc = NoExc
  /\ exitCode = -1
  /\ req = [k \in {"list", "lookup", "borrow", "fbReturn", "fbRefresh", "fulfil",
                    "runReturn"} |-> 0]
  /\ downloads = [i \in Items |-> 0]
  /\ returnReqs = [i \in Items |-> 0]
  /\ obs = [startLoans |-> Range(serverLoans), probe |-> "none",
            refreshed |-> FALSE, lastFetched |-> << >>,
            dirty |-> FALSE, staleRead |-> FALSE,
            tmlNonEmpty |-> FALSE, tmlEmpty |-> FALSE, fbReturnOk |-> FALSE,
            refreshAfterBorrow |-> FALSE, external |-> 0,
            borrowAnswer |-> "none", returnAnswer |-> "none",
            briefAnswer |-> "none"]
  /\ dl = NoDl

\* ---------------------------------------------------------------- __main__
\* get_initial_cookies(library); session.cookies.set("__config_PROD", ...)
GetInitialCookies ==
  /\ pc = "main_cookies"
  /\ \E answer \in {"cookie", "no_cookie", "request_error"} :
       IF answer = "cookie"
       THEN /\ cookies' = {"__config_PROD"}
            /\ pc' = IF args.cookie THEN "main_set_cookie" ELSE "main_login"
            /\ UNCHANGED << exc, exitCode >>
       ELSE /\ Raise(IF answer = "no_cookie" THEN "Exception" ELSE "RequestException", {})
            /\ UNCHANGED cookies
  /\ UNCHANGED << dl, args, cache, serverLoans, brief, books, idx, to_return, success,
                  req, downloads, returnReqs, obs >>

\* if args.cookie: session.cookies.set("__session_PROD", args.cookie)
SetSessionCookie ==
  /\ pc = "main_set_cookie"
  /\ cookies' = cookies \cup {"__session_PROD"}
  /\ pc' = "main_check"
  /\ UNCHANGED << dl, args, cache, serverLoans, brief, books, idx, to_return, success,
                  exc, exitCode, req, downloads, returnReqs, obs >>

\* log_in: the server sets the session cookie when it accepts the credentials;
\* a 200 answer without the cookie is not noticed here.
LogIn ==
  /\ pc = "main_login"
  /\ \E answer \in {"ok_session", "ok_no_session", "bad_status", "request_error"} :
       IF answer \in {"ok_session", "ok_no_session"}
       THEN /\ cookies' = IF answer = "ok_session"
                          THEN cookies \cup {"__session_PROD"} ELSE cookies
            /\ pc' = "main_check"
            /\ UNCHANGED << exc, exitCode >>
       ELSE /\ Raise(IF answer = "bad_status" THEN "Exception" ELSE "RequestException", {})
            /\ UNCHANGED cookies
  /\ UNCHANGED << dl, args, cache, serverLoans, brief, books, idx, to_return, success,
                  req, downloads, returnReqs, obs >>

\* (variant: the session cookie is not looked at)
CheckLogin_NoCookieCheck ==
  /\ pc = "main_check"
  /\ \E answer \in {"ok", "redirect", "request_error"} :
       /\ obs' = [obs EXCEPT !.probe = answer]
       /\ IF answer = "ok"
          THEN /\ pc' = "run_cache"
               /\ UNCHANGED << exc, exitCode >>
          ELSE Raise(IF answer = "request_error" THEN "RequestException" ELSE "Exception", {})
  /\ UNCHANGED << dl, args, cookies, cache, serverLoans, brief, books, idx, to_return,
                  success, req, downloads, returnReqs >>

\* check_login: the probe of mybooks/current, then the cookie test
CheckLogin ==
  /\ pc = "main_check"
  /\ \E answer \in {"ok", "redirect", "request_error"} :
       /\ obs' = [obs EXCEPT !.probe = answer]
       /\ IF answer = "ok" /\ "__session_PROD" \in cookies
          THEN /\ pc' = "run_cache"
               /\ UNCHANGED << exc, exitCode >>
          ELSE Raise(IF answer = "request_error" THEN "RequestException" ELSE "Exception", {})
  /\ UNCHANGED << dl, args, cookies, cache, serverLoans, brief, books, idx, to_return,
                  success, req, downloads, returnReqs >>

\* ------------------------------------------------------ cache_loaned_books
\* cache_loaned_books at one of its three call sites: the loan list is fetched
\* with use_cache False and merged into the cache; next is where the caller
\* goes on, kinds are the request counters of the site, escapes the functions
\* an exception of the fetch propagates out of.
CacheLoanedBooks(next, kinds, escapes, afterBorrow) ==
  \E answer \in ListAnswers(FALSE) :
    /\ req' = [k \in DOMAIN req |-> IF k \in kinds THEN Sat(req[k]) ELSE req[k]]
    /\ IF answer = "ok"
       THEN /\ cache' = MergeCache(cache, ListResult(answer))
            /\ obs' = [obs EXCEPT !.refreshed = TRUE,
                                  !.lastFetched = ListResult(answer),
                                  !.dirty = FALSE,
                                  !.refreshAfterBorrow = @ \/ afterBorrow]
            /\ pc' = next
            /\ UNCHANGED << exc, exitCode >>
       ELSE /\ Raise(IF answer = "no_patronItems" THEN "ValueError"
                     ELSE "RequestException", escapes)
            /\ UNCHANGED << cache, obs >>

\* ---------------------------------------------------------- download_books
\* line 468: cache_loaned_books(library)
RunCache ==
  /\ pc = "run_cache"
  /\ CacheLoanedBooks(IF args.title # None THEN "run_brief" ELSE "run_list_all",
                      {"list"}, {"download_books"}, FALSE)
  /\ UNCHANGED << dl, args, cookies, serverLoans, brief, books, idx, to_return, success,
                  downloads, returnReqs >>

\* lines 470-473: media_meta_brief = get_book_metadata_brief(library, media_id)
\* and the media type test
RunBrief ==
  /\ pc = "run_brief"
  /\ \E answer \in BriefAnswers(args.title) :
     \E status \in BriefStatuses(args.title, answer) :
       /\ req' = IF answer = "cached" THEN req ELSE [req EXCEPT !.lookup = Sat(@)]
       /\ obs' = [obs EXCEPT !.staleRead = @ \/ obs.dirty, !.briefAnswer = answer]
       /\ IF answer \in {"cached", "ok"}
          THEN /\ brief' = [mediaType |-> MediaType(args.title), status |-> status]
               /\ IF MediaType(args.title) # "Mp3"
                  THEN Raise("Exception", {"download_books"})
                  ELSE /\ pc' = "run_filter"
                       /\ UNCHANGED << exc, exitCode >>
          ELSE /\ Raise(BriefExc(answer), {"get_book_metadata_brief", "download_books"})
               /\ UNCHANGED brief
  /\ UNCHANGED << dl, args, cookies, cache, serverLoans, books, idx, to_return, success,
                  downloads, returnReqs >>

\* lines 478-482: books_to_download = filter_loaned_books([media_id], library);
\* when it is empty the book is borrowed, unless its status is not CAN_LOAN
RunFilter ==
  /\ pc = "run_filter"
  /\ \E answer \in ListAnswers(TRUE) :
       /\ req' = IF answer = "cached" THEN req ELSE [req EXCEPT !.list = Sat(@)]
       /\ obs' = [obs EXCEPT !.staleRead = @ \/ obs.dirty]
       /\ IF answer \in {"cached", "ok"}
          THEN LET found == FilterLoaned(ListResult(answer), {args.title}) IN
               IF found # << >>
               THEN /\ books' = found
                    /\ pc' = "run_loop"
                    /\ UNCHANGED << exc, exitCode >>
               ELSE /\ UNCHANGED books
                    /\ IF ~CanBorrow(brief.status)
                       THEN Raise("Exception", {"download_books"})
                       ELSE /\ pc' = "borrow_req"
                            /\ UNCHANGED << exc, exitCode >>
          ELSE /\ Raise(IF answer = "no_patronItems" THEN "ValueError"
                        ELSE "RequestException", {"download_books"})
               /\ UNCHANGED books
  /\ UNCHANGED << dl, args, cookies, cache, serverLoans, brief, idx, to_return, success,
                  downloads, returnReqs >>

\* (variant: the run goes on after a failed borrow)
RunBorrowed_IgnoreFailure ==
  /\ pc = "run_borrowed"
  /\ pc' = "run_refresh"
  /\ UNCHANGED << dl, args, cookies, cache, serverLoans, brief, books, idx, to_return,
                  success, exc, exitCode, req, downloads, returnReqs, obs >>

\* lines 483-485: success = borrow_book(...); if not success: exit(1)
RunBorrowed ==
  /\ pc = "run_borrowed"
  /\ IF success
     THEN /\ pc' = "run_refresh"
          /\ UNCHANGED exitCode
     ELSE /\ pc' = "exited"
          /\ exitCode' = 1
  /\ UNCHANGED << dl, args, cookies, cache, serverLoans, brief, books, idx, to_return,
                  success, exc, req, downloads, returnReqs, obs >>

\* (variant: no refresh after the borrow)
RunRefreshAfterBorrow_Skip ==
  /\ pc = "run_refresh"
  /\ pc' = "run_filter_again"
  /\ UNCHANGED << dl, args, cookies, cache, serverLoans, brief, books, idx, to_return,
                  success, exc, exitCode, req, downloads, returnReqs, obs >>

\* line 486: cache_loaned_books(library)
RunRefreshAfterBorrow ==
  /\ pc = "run_refresh"
  /\ CacheLoanedBooks("run_filter_again", {"list"}, {"download_books"}, TRUE)
  /\ UNCHANGED << dl, args, cookies, serverLoans, brief, books, idx, to_return, success,
                  downloads, returnReqs >>

\* line 487: books_to_download = filter_loaned_books([media_id], library)
RunFilterAgain ==
  /\ pc = "run_filter_again"
  /\ \E answer \in ListAnswers(TRUE) :
       /\ req' = IF answer = "cached" THEN req ELSE [req EXCEPT !.list = Sat(@)]
       /\ obs' = [obs EXCEPT !.staleRead = @ \/ obs.dirty]
       /\ IF answer \in {"cached", "ok"}
          THEN /\ books' = FilterLoaned(ListResult(answer), {args.title})
               /\ pc' = "run_loop"
               /\ UNCHANGED << exc, exitCode >>
          ELSE /\ Raise(IF answer = "no_patronItems" THEN "ValueError"
                        ELSE "RequestException", {"download_books"})
               /\ UNCHANGED books
  /\ UNCHANGED << dl, args, cookies, cache, serverLoans, brief, idx, to_return, success,
                  downloads, returnReqs >>

\* lines 489-491: every loaned book whose mediaType is Mp3
RunListAll ==
  /\ pc = "run_list_all"
  /\ \E answer \in ListAnswers(TRUE) :
       /\ req' = IF answer = "cached" THEN req ELSE [req EXCEPT !.list = Sat(@)]
       /\ obs' = [obs EXCEPT !.staleRead = @ \/ obs.dirty]
       /\ IF answer \in {"cached", "ok"}
          THEN /\ books' = FilterMp3(ListResult(answer))
               /\ pc' = "run_loop"
               /\ UNCHANGED << exc, exitCode >>
          ELSE /\ Raise(IF answer = "no_patronItems" THEN "ValueError"
                        ELSE "RequestException", {"download_books"})
               /\ UNCHANGED books
  /\ UNCHANGED << dl, args, cookies, cache, serverLoans, brief, idx, to_return, success,
                  downloads, returnReqs >>

\* line 493: the next book of the for loop
LoopNext ==
  /\ pc = "run_loop"
  /\ idx <= Len(books)
  /\ pc' = "dl_brief"
  /\ UNCHANGED << dl, args, cookies, cache, serverLoans, brief, books, idx, to_return,
                  success, exc, exitCode, req, downloads, returnReqs, obs >>

\* the for loop is exhausted: the generator ends and the process exits
RunDone ==
  /\ pc = "run_loop"
  /\ idx > Len(books)
  /\ pc' = "done"
  /\ exitCode' = 0
  /\ UNCHANGED << dl, args, cookies, cache, serverLoans, brief, books, idx, to_return,
                  success, exc, req, downloads, returnReqs, obs >>

\* ------------------------------------------------------------- borrow_book
\* lines 243-281: the borrow request and the classification of its answer.
\* On TOO_MANY_LOANS with a non-empty cache the first cached key is chosen
\* (line 264) and return_book is called next.  Every return statement of
\* borrow_book, the one of the recursive call included, hands its value to
\* download_books (the recursive call is in tail position).
BorrowRequest ==
  /\ pc = "borrow_req"
  /\ \E answer \in BorrowAnswers :
       /\ req' = [req EXCEPT !.borrow = Sat(@)]
       /\ CASE answer = "request_error" ->
                 /\ Raise("RequestException", {"borrow_book", "download_books"})
                 /\ obs' = [obs EXCEPT !.borrowAnswer = answer]
                 /\ UNCHANGED << serverLoans, to_return, success >>
            [] answer = "ok" ->
                 /\ serverLoans' = IF args.title \in Range(serverLoans) THEN serverLoans
                                   ELSE << args.title >> \o serverLoans
                 /\ success' = TRUE
                 /\ pc' = "run_borrowed"
                 /\ obs' = [obs EXCEPT !.dirty = TRUE, !.borrowAnswer = answer]
                 /\ UNCHANGED << to_return, exc, exitCode >>
            [] IsTooManyLoans(answer) /\ cache # << >> ->
                 /\ to_return' = Head(cache)
                 /\ pc' = "borrow_return"
                 /\ obs' = [obs EXCEPT !.staleRead = @ \/ obs.dirty,
                                       !.tmlNonEmpty = @ \/ req.borrow = 0,
                                       !.borrowAnswer = answer]
                 /\ UNCHANGED << serverLoans, success, exc, exitCode >>
            [] OTHER ->
                 /\ success' = FALSE
                 /\ pc' = "run_borrowed"
                 /\ obs' = [obs EXCEPT !.tmlEmpty =
                                @ \/ (IsTooManyLoans(answer) /\ req.borrow = 0),
                                       !.borrowAnswer = answer]
                 /\ UNCHANGED << serverLoans, to_return, exc, exitCode >>
  /\ UNCHANGED << dl, args, cookies, cache, brief, books, idx, downloads, returnReqs >>

\* line 266: return_book(to_return, library) inside the fallback
\* (return_book, lines 189-215: True only for a 200 answer that decodes, holds
\* no error and is not FAILED).  The server drops an accepted loan.
FallbackReturn ==
  /\ pc = "borrow_return"
  /\ \E answer \in ReturnAnswers :
       /\ req' = [req EXCEPT !.fbReturn = Sat(@)]
       /\ returnReqs' = [returnReqs EXCEPT ![to_return] = Sat(@)]
       /\ serverLoans' = IF answer = "ok" THEN RemoveItem(serverLoans, to_return)
                         ELSE serverLoans
       /\ CASE answer = "request_error" ->
                 /\ Raise("RequestException",
                          {"return_book", "borrow_book", "download_books"})
                 /\ obs' = [obs EXCEPT !.returnAnswer = answer]
                 /\ UNCHANGED success
            [] answer # "request_error" /\ ReturnSucceeded(answer) ->
                 /\ pc' = "borrow_refresh"
                 /\ obs' = [obs EXCEPT !.dirty = TRUE,
                                       !.fbReturnOk = @ \/ req.fbReturn = 0,
                                       !.returnAnswer = answer]
                 /\ UNCHANGED << success, exc, exitCode >>
            [] OTHER ->
                 /\ success' = FALSE
                 /\ pc' = "run_borrowed"
                 /\ obs' = [obs EXCEPT !.returnAnswer = answer]
                 /\ UNCHANGED << exc, exitCode >>
  /\ UNCHANGED << dl, args, cookies, cache, brief, books, idx, to_return, downloads >>

\* lines 267-268: cache_loaned_books(library); return borrow_book(book_id, library)
FallbackRefresh ==
  /\ pc = "borrow_refresh"
  /\ CacheLoanedBooks("borrow_req", {"list", "fbRefresh"},
                      {"cache_loaned_books", "borrow_book", "download_books"}, FALSE)
  /\ UNCHANGED << dl, args, cookies, serverLoans, brief, books, idx, to_return, success,
                  downloads, returnReqs >>

\* ----------------------------------------------------------- download_book
\* lines 330-332: audiobook_meta_brief = get_book_metadata_brief(library, book_id)
DownloadBrief ==
  /\ pc = "dl_brief"
  /\ \E answer \in BriefAnswers(books[idx]) :
       /\ req' = IF answer = "cached" THEN req ELSE [req EXCEPT !.lookup = Sat(@)]
       /\ obs' = [obs EXCEPT !.staleRead = @ \/ obs.dirty, !.briefAnswer = answer]
       /\ IF answer \in {"cached", "ok"}
          THEN /\ pc' = "dl_fulfil"
               /\ UNCHANGED << exc, exitCode >>
          ELSE Raise(BriefExc(answer),
                     {"get_book_metadata_brief", "download_book", "download_books"})
  /\ UNCHANGED << dl, args, cookies, cache, serverLoans, brief, books, idx, to_return,
                  success, downloads, returnReqs >>

\* line 357: the fulfillment request of the audio backend
DownloadFulfil ==
  /\ pc = "dl_fulfil"
  /\ \E answer \in {"ok", "no_audiobook", "request_error"} :
       /\ req' = [req EXCEPT !.fulfil = Sat(@)]
       /\ IF answer = "ok"
          THEN /\ pc' = "dl_chapters"
               /\ UNCHANGED << exc, exitCode >>
          ELSE Raise(IF answer = "no_audiobook" THEN "KeyError" ELSE "RequestException",
                     {"download_book", "download_books"})
  /\ UNCHANGED << dl, args, cookies, cache, serverLoans, brief, books, idx, to_return,
                  success, downloads, returnReqs, obs >>

\* (variant: the book is returned whatever return_books says)
DownloadChapters_AlwaysReturn ==
  /\ pc = "dl_chapters"
  /\ \E answer \in {"ok", "request_error"} :
       IF answer = "ok"
       THEN /\ downloads' = [downloads EXCEPT ![books[idx]] = Sat(@)]
            /\ pc' = "run_return"
            /\ UNCHANGED << idx, exc, exitCode >>
       ELSE /\ Raise("RequestException", {"download_book", "download_books"})
            /\ UNCHANGED << downloads, idx >>
  /\ UNCHANGED << dl, args, cookies, cache, serverLoans, brief, books, to_return, success,
                  req, obs, returnReqs >>

\* lines 360-448: metadata, playlist and chapter files; then the yield of line
\* 494, and, resumed by the loop of __main__, line 495
DownloadChapters ==
  /\ pc = "dl_chapters"
  /\ \E answer \in {"ok", "request_error"} :
       IF answer = "ok"
       THEN /\ downloads' = [downloads EXCEPT ![books[idx]] = Sat(@)]
            /\ pc' = IF args.release THEN "run_return" ELSE "run_loop"
            /\ idx' = IF args.release THEN idx ELSE idx + 1
            /\ UNCHANGED << exc, exitCode >>
       ELSE /\ Raise("RequestException", {"download_book", "download_books"})
            /\ UNCHANGED << downloads, idx >>
  /\ UNCHANGED << dl, args, cookies, cache, serverLoans, brief, books, to_return, success,
                  req, obs, returnReqs >>

\* line 496: return_book(book_to_download["itemId"], library); its result is
\* not looked at
RunReturn ==
  /\ pc = "run_return"
  /\ \E answer \in ReturnAnswers :
       /\ returnReqs' = [returnReqs EXCEPT ![books[idx]] = Sat(@)]
       /\ req' = [req EXCEPT !.runReturn = Sat(@)]
       /\ CASE answer = "request_error" ->
                 /\ Raise("RequestException", {"return_book", "download_books"})
                 /\ UNCHANGED << serverLoans, obs, idx >>
            [] answer = "ok" ->
                 /\ serverLoans' = RemoveItem(serverLoans, books[idx])
                 /\ obs' = [obs EXCEPT !.dirty = TRUE]
                 /\ pc' = "run_loop"
                 /\ idx' = idx + 1
                 /\ UNCHANGED << exc, exitCode >>
            [] OTHER ->
                 /\ pc' = "run_loop"
                 /\ idx' = idx + 1
                 /\ UNCHANGED << serverLoans, obs, exc, exitCode >>
  /\ UNCHANGED << dl, args, cookies, cache, brief, books, to_return, success,
                  downloads >>

\* ---------------------------------------------- download_book: chapter files
\* Strings are sequences of one-character strings.
Min(a, b) == IF a <= b THEN a ELSE b

Reverse(s) == [i \in 1..Len(s) |-> s[Len(s) + 1 - i]]

\* s.split(sep)[0]: the text before the first sep, all of s when there is none
RECURSIVE SplitFirst(_, _)
SplitFirst(s, sep) ==
  IF s = << >> \/ Head(s) = sep THEN << >>
  ELSE << Head(s) >> \o SplitFirst(Tail(s), sep)

\* line 397: chapter["url"][::-1].split(".")[0][::-1]
FileExt(url) == Reverse(SplitFirst(Reverse(url), "."))

\* str(n) for n >= 0
RECURSIVE Digits(_)
Digits(n) ==
  LET digit == << "0", "1", "2", "3", "4", "5", "6", "7", "8", "9" >> IN
  IF n < 10 THEN << digit[n + 1] >>
  ELSE Digits(n \div 10) \o << digit[(n % 10) + 1] >>

\* "%0{w}d" % n: zeros on the left up to width w, never a cut
RECURSIVE ZeroPad(_, _)
ZeroPad(ds, w) == IF Len(ds) >= w THEN ds ELSE ZeroPad(<< "0" >> \o ds, w)

\* line 392: max_chapter_idx_length = len(str(len(audiobook_loan["items"])))
MaxChapterIdxLength(items) == Len(Digits(Len(items)))

\* lines 398-402: output_filename
OutputFilename(chapter_idx, title, url, width) ==
  ZeroPad(Digits(chapter_idx), width) \o << " ", "-", " " >> \o title
    \o << "." >> \o FileExt(url)

\* os.path.join(a, b) for a relative b
JoinPath(a, b) == a \o << "/" >> \o b

\* line 387: re.sub(r"[^\w\-_. ]", "", folder_name): the characters kept
Kept(c) ==
  c \in {"a", "b", "c", "m", "t", "u", "w", "x", "A", "T",
         "0", "1", "2", "3", "4", "5", "6", "7", "8", "9",
         "-", "_", ".", " "}

RECURSIVE LStrip(_)
LStrip(s) == IF s # << >> /\ Head(s) = " " THEN LStrip(Tail(s)) ELSE s

\* str.strip() of a string whose only whitespace is the space
Strip(s) == Reverse(LStrip(Reverse(LStrip(s))))

\* line 387: [:100]
FolderMax == 100

\* lines 382-388: output_directory
OutputDirectory(book_id, authors, title) ==
  LET first_author == IF authors # << >> THEN authors[1] ELSE << >>
      folder_name == Digits(book_id) \o << " ", "-", " " >> \o first_author
                       \o << " ", "-", " " >> \o title
      clean == Strip(SelectSeq(folder_name, Kept))
  IN  JoinPath(<< "a", "u", "d", "i", "o", "b", "o", "o", "k", "s" >>,
               SubSeq(clean, 1, Min(Len(clean), FolderMax)))

\* line 405: os.path.exists(output_filepath)
\* (variant: no file is ever found)
Exists_Never(files, path) == FALSE

Exists(files, path) == path \in files

\* line 396: zip(audiobook_playlist, audiobook_loan["items"]) stops with the
\* shorter of the two
ZipLen == Min(Len(dl.audiobook_playlist), Len(dl.items))

\* lines 397-404: output_filepath of the chapter the loop is at
OutputFilepath ==
  JoinPath(dl.output_directory,
           OutputFilename(dl.chapter_idx, dl.items[dl.pos],
                          dl.audiobook_playlist[dl.pos],
                          MaxChapterIdxLength(dl.items)))

\* The inputs of the chapter loop: what the metadata, fulfilment and playlist
\* requests answered.
Titles == { << "a" >>, << "b", ".", "c" >> }

Urls == { << "u", ".", "m" >>, << "u", ".", "t", ".", "w" >>, << "u" >> }

Metas ==
  { [authors |-> << << "A" >> >>, title |-> << "T", ":", " " >>],
    [authors |-> << >>, title |-> [i \in 1..FolderMax |-> "x"]] }

SeqsUpTo(S, n) == UNION { [1..k -> S] : k \in 0..n }

Playlists ==
  SeqsUpTo(Urls, MaxChapters) \cup { [i \in 1..LongBook |-> << "u", ".", "m" >>] }

ItemLists ==
  SeqsUpTo(Titles, MaxChapters) \cup { [i \in 1..LongBook |-> << "a" >>] }

\* lines 382-393: folder name, makedirs, max_chapter_idx_length, chapter_idx = 1
DlStart ==
  /\ pc = "dlc_start"
  /\ pc' = "dlc_loop"
  /\ dl' = [dl EXCEPT !.output_directory =
                         OutputDirectory(dl.book_id, dl.authors, dl.title),
                      !.pos = 1, !.chapter_idx = 1, !.result = << >>,
                      !.transfers = 0, !.written = {},
                      !.filesAtStart = dl.files]
  /\ UNCHANGED << args, cookies, cache, serverLoans, brief, books, idx, to_return,
                  success, exc, exitCode, req, downloads, returnReqs, obs >>

\* lines 396-407, the chapter's file exists: "exists. skipping"; continue
\* (variant: a skipped chapter does not take a number)
ChapterSkip_NoCount ==
  /\ pc = "dlc_loop"
  /\ dl.pos <= ZipLen
  /\ Exists(dl.files, OutputFilepath)
  /\ dl' = [dl EXCEPT !.pos = @ + 1]
  /\ UNCHANGED << pc, args, cookies, cache, serverLoans, brief, books, idx,
                  to_return, success, exc, exitCode, req, downloads, returnReqs,
                  obs >>

ChapterSkip ==
  /\ pc = "dlc_loop"
  /\ dl.pos <= ZipLen
  /\ Exists(dl.files, OutputFilepath)
  /\ dl' = [dl EXCEPT !.pos = @ + 1, !.chapter_idx = @ + 1]
  /\ UNCHANGED << pc, args, cookies, cache, serverLoans, brief, books, idx,
                  to_return, success, exc, exitCode, req, downloads, returnReqs,
                  obs >>

\* lines 396-411, the chapter's file is missing: session.get(chapter["url"]),
\* then the body is written to output_filepath; a RequestException leaves
\* download_book with the chapters written so far on disk
ChapterDownload ==
  /\ pc = "dlc_loop"
  /\ dl.pos <= ZipLen
  /\ ~Exists(dl.files, OutputFilepath)
  /\ \E answer \in {"ok", "request_error"} :
       IF answer = "ok"
       THEN /\ dl' = [dl EXCEPT !.pos = @ + 1, !.chapter_idx = @ + 1,
                                !.transfers = @ + 1,
                                !.files = @ \cup {OutputFilepath},
                                !.written = @ \cup {OutputFilepath},
                                !.writerDirs = @ \cup {dl.output_directory}]
            /\ UNCHANGED << pc, exc, exitCode >>
       ELSE /\ dl' = [dl EXCEPT !.chapter_idx = @ + 1, !.transfers = @ + 1]
            /\ Raise("RequestException", {"download_book", "download_books"})
  /\ UNCHANGED << args, cookies, cache, serverLoans, brief, books, idx, to_return,
                  success, req, downloads, returnReqs, obs >>

\* lines 413-448: the loop is exhausted; return output_directory
DlReturn ==
  /\ pc = "dlc_loop"
  /\ dl.pos > ZipLen
  /\ pc' = "dlc_done"
  /\ dl' = [dl EXCEPT !.result = dl.output_directory]
  /\ UNCHANGED << args, cookies, cache, serverLoans, brief, books, idx, to_return,
                  success, exc, exitCode, req, downloads, returnReqs, obs >>

\* line 494 in a later run: download_book is called again for the same item,
\* with the files of the earlier calls on disk
DlReinvoke ==
  /\ pc \in {"dlc_done", "raised"}
  /\ dl.invocation < MaxInvocations
  /\ pc' = "dlc_start"
  /\ exc' = NoExc
  /\ exitCode' = -1
  /\ dl' = [dl EXCEPT !.invocation = @ + 1,
                      !.writtenBefore = @ \cup dl.written]
  /\ UNCHANGED << args, cookies, cache, serverLoans, brief, books, idx, to_return,
                  success, req, downloads, returnReqs, obs >>

\* download_book entered with the answers of its metadata requests drawn from
\* the sets above and some of the first chapters' files already on disk
InitDl ==
  /\ pc = "dlc_start"
  /\ args = [title |-> None, release |-> FALSE, cookie |-> FALSE]
  /\ cookies = {}
  /\ cache = << >>
  /\ serverLoans = << >>
  /\ brief = NoBrief
  /\ books = << >>
  /\ idx = 1
  /\ to_return = None
  /\ success = FALSE
  /\ exc = NoExc
  /\ exitCode = -1
  /\ req = [k \in {"list", "lookup", "borrow", "fbReturn", "fbRefresh", "fulfil",
                    "runReturn"} |-> 0]
  /\ downloads = [i \in Items |-> 0]
  /\ returnReqs = [i \in Items |-> 0]
  /\ obs = [startLoans |-> {}, probe |-> "none",
            refreshed |-> FALSE, lastFetched |-> << >>,
            dirty |-> FALSE, staleRead |-> FALSE,
            tmlNonEmpty |-> FALSE, tmlEmpty |-> FALSE, fbReturnOk |-> FALSE,
            refreshAfterBorrow |-> FALSE, external |-> 0,
            borrowAnswer |-> "none", returnAnswer |-> "none",
            briefAnswer |-> "none"]
  /\ \E meta \in Metas, playlist \in Playlists, items \in ItemLists :
       LET dir == OutputDirectory(1, meta.authors, meta.title)
           first == 1..Min(MaxChapters, Min(Len(playlist), Len(items)))
           paths == { JoinPath(dir, OutputFilename(k, items[k], playlist[k],
                                                   MaxChapterIdxLength(items))) :
                      k \in first }
       IN  \E present \in SUBSET paths :
             dl = [invocation |-> 1, book_id |-> 1,
                   authors |-> meta.authors, title |-> meta.title,
                   audiobook_playlist |-> playlist, items |-> items,
                   files |-> present, output_directory |-> << >>,
                   pos |-> 1, chapter_idx |-> 1, result |-> << >>,
                   transfers |-> 0, written |-> {}, filesAtStart |-> present,
                   writerDirs |-> {}, writtenBefore |-> {}]

\* ------------------------------------------------------------- environment
\* The patron's account changes outside this run: a loan is taken on another
\* device, or a loan expires.
ExternalChange ==
  /\ pc \notin {"done", "exited", "raised"}
  /\ obs.external < MaxExternal
  /\ obs' = [obs EXCEPT !.external = @ + 1]
  /\ \E i \in Items :
       serverLoans' = IF i \in Range(serverLoans) THEN RemoveItem(serverLoans, i)
                      ELSE << i >> \o serverLoans
  /\ UNCHANGED << dl, pc, args, cookies, cache, brief, books, idx, to_return, success,
                  exc, exitCode, req, downloads, returnReqs >>

\* ---------------------------------------------------------- specifications
Next ==
  \/ GetInitialCookies
  \/ SetSessionCookie
  \/ LogIn
  \/ CheckLogin
  \/ RunCache
  \/ RunBrief
  \/ RunFilter
  \/ BorrowRequest
  \/ FallbackReturn
  \/ FallbackRefresh
  \/ RunBorrowed
  \/ RunRefreshAfterBorrow
  \/ RunFilterAgain
  \/ RunListAll
  \/ LoopNext
  \/ DownloadBrief
  \/ DownloadFulfil
  \/ DownloadChapters
  \/ RunReturn
  \/ RunDone

\* The account is touched by this run only.
Spec == Init /\ [][Next]_vars

\* The program is sequential and always takes its next step.
FairSpec == Spec /\ WF_vars(Next)

NextEnv == Next \/ ExternalChange

\* The account may also change outside the run.
SpecEnv == Init /\ [][NextEnv]_vars

NextDl ==
  \/ DlStart
  \/ ChapterSkip
  \/ ChapterDownload
  \/ DlReturn
  \/ DlReinvoke

\* download_book's chapter loop on its own, over drawn inputs
SpecDl == InitDl /\ [][NextDl]_vars

\* ------------------------------------------------------------------ claims
BorrowPcs == {"borrow_req", "borrow_return", "borrow_refresh"}
DownloadPcs == {"dl_brief", "dl_fulfil", "dl_chapters"}

AnyLoanRequest ==
  \/ \E k \in DOMAIN req : req[k] > 0
  \/ \E i \in Items : downloads[i] > 0 \/ returnReqs[i] > 0

\* C1: when the first borrow request is answered TOO_MANY_LOANS and the cache
\* is non-empty (and the return_item of the fallback succeeds; its failure is
\* C18's case), one call of borrow issues exactly one return_item request, one
\* cache refresh and one retried borrow request, whatever the retried request
\* is answered; with an empty cache under the same error it issues no
\* return_item and no retried borrow request and returns false.
C1_ExactlyOneRetry ==
  /\ (obs.tmlNonEmpty /\ obs.fbReturnOk) =>
       /\ req.fbReturn <= 1 /\ req.fbRefresh <= 1 /\ req.borrow <= 2
       /\ pc = "run_borrowed" =>
            (req.fbReturn = 1 /\ req.fbRefresh = 1 /\ req.borrow = 2)
  /\ obs.tmlEmpty =>
       (req.fbReturn = 0 /\ req.fbRefresh = 0 /\ req.borrow = 1 /\ ~success)

\* C2: every call of borrow eventually returns, whatever the server answers:
\* whenever the program is inside borrow_book it eventually leaves it.
C2_BorrowReturns == [](pc \in BorrowPcs => <>(pc \notin BorrowPcs))

\* C3: after refresh_loan_cache has completed, the key set of the cache is
\* exactly the set of item ids of the list fetched by that refresh (the
\* cache is written nowhere else).
C3_CacheIsFetchedList == obs.refreshed => Range(cache) = Range(obs.lastFetched)

\* C4: every successful borrow and every successful return_item, the one of
\* run after a download included, is followed by a cache refresh before the
\* cache is next read and before the run ends.
C4_RefreshAfterMutation == ~obs.staleRead /\ (pc = "done" => ~obs.dirty)

\* C5: whenever download_item is about to request fulfillment credentials or
\* chapter files for an item, the item is in the loan cache.
C5_DownloadedItemCached ==
  pc \in {"dl_fulfil", "dl_chapters"} => books[idx] \in Range(cache)

\* C6: no loan-list fetch, detail lookup, borrow, return or download request
\* is issued before verify_session has succeeded (the probe was not redirected
\* and the session cookie is present), on the login path and on the cookie
\* path; when verify_session fails the run has aborted and issued none.
C6_VerifiedBeforeRequests ==
  /\ AnyLoanRequest => (obs.probe = "ok" /\ "__session_PROD" \in cookies)
  /\ pc \notin {"main_cookies", "main_set_cookie", "main_login", "main_check", "raised"}
       => (obs.probe = "ok" /\ "__session_PROD" \in cookies)
  /\ (obs.probe \in {"redirect", "request_error"}
        \/ (obs.probe = "ok" /\ "__session_PROD" \notin cookies))
       => (pc = "raised" /\ ~AnyLoanRequest)

C6_Witness ==
  /\ args.cookie
  /\ obs.probe = "ok"
  /\ req.list > 0
  /\ \E i \in Items : downloads[i] > 0

\* C7: borrow and return_item report every failure by returning false: no
\* exception propagates out of borrow_book or return_book.
C7_NeverRaises ==
  "borrow_book" \notin exc.escapes /\ "return_book" \notin exc.escapes

\* C8: the items run downloads are exactly the resolved set: with item_id
\* given, that item and no other; without, every loaned Mp3 item and no loan
\* of another media type.
C8_DownloadsResolvedSet ==
  /\ args.title # None =>
       \A i \in Items : downloads[i] > 0 => i = args.title
  /\ args.title = None =>
       \A i \in Items : downloads[i] > 0 =>
         (i \in obs.startLoans /\ MediaType(i) = "Mp3")
  /\ (pc = "done" /\ args.title = None) =>
       \A i \in obs.startLoans : MediaType(i) = "Mp3" => downloads[i] > 0
  /\ (pc = "done" /\ args.title # None) => downloads[args.title] > 0

C8_Witness ==
  /\ pc = "done"
  /\ args.title = None
  /\ \E i, j, k \in obs.startLoans :
       /\ i # j
       /\ downloads[i] > 0 /\ downloads[j] > 0
       /\ MediaType(k) # "Mp3" /\ downloads[k] = 0

\* C9: in a run consumed to the end each item of the resolved set is
\* downloaded exactly once; with return_after exactly one return_item request
\* is issued for it, after its own download and before the next download
\* begins; without return_after none is issued.
C9_OncePerItem ==
  LET expected == IF args.release THEN 1 ELSE 0 IN
  /\ \A i \in Items : downloads[i] <= 1
  /\ \A k \in 1 .. Len(books) :
       /\ returnReqs[books[k]] <= expected
       /\ returnReqs[books[k]] > 0 => downloads[books[k]] = 1
  /\ pc \in DownloadPcs =>
       /\ downloads[books[idx]] = 0 /\ returnReqs[books[idx]] = 0
       /\ \A k \in 1 .. idx - 1 :
            downloads[books[k]] = 1 /\ returnReqs[books[k]] = expected
  /\ pc = "done" =>
       \A k \in 1 .. Len(books) :
         downloads[books[k]] = 1 /\ returnReqs[books[k]] = expected

C9_Witness ==
  /\ pc = "done"
  /\ args.release
  /\ Len(books) >= 2
  /\ \A k \in 1 .. Len(books) : returnReqs[books[k]] = 1 /\ downloads[books[k]] = 1

\* C10: when the requested item is not on loan at the start, the catalog
\* reports it loanable (CAN_LOAN, Mp3) and the server accepts the borrow, the
\* run refreshes the cache after the borrow, resolves exactly that item,
\* downloads it exactly once and ends normally (no exit(1), no exception of
\* its own; a failing request may still end it).
C10_BorrowThenDownload ==
  (/\ args.title # None
   /\ args.title \notin obs.startLoans
   /\ brief = [mediaType |-> "Mp3", status |-> "CAN_LOAN"]
   /\ success) =>
     /\ pc # "exited"
     /\ pc = "raised" => exc.kind # "Exception"
     /\ pc \in {"run_filter_again", "run_loop", "run_return", "done"} \cup DownloadPcs
          => obs.refreshAfterBorrow
     /\ pc \in {"run_loop", "run_return", "done"} \cup DownloadPcs
          => books = << args.title >>
     /\ downloads[args.title] <= 1
     /\ pc = "done" => (downloads[args.title] = 1 /\ exitCode = 0)

C10_Witness ==
  /\ pc = "done"
  /\ args.title # None
  /\ args.title \notin obs.startLoans
  /\ success
  /\ obs.refreshAfterBorrow
  /\ downloads[args.title] = 1

Terminal == {"done", "exited", "raised"}

\* C11: when a specific item is requested, is not on loan and the catalog
\* reports a status other than CAN_LOAN, run fails (it raises) and issues no
\* borrow request, no return_item request and no download for any item.
C11_NotLoanableFails ==
  (/\ args.title # None
   /\ args.title \notin obs.startLoans
   /\ brief.mediaType = "Mp3"
   /\ brief.status # "CAN_LOAN") =>
     /\ pc \in {"run_filter", "raised"}
     /\ req.borrow = 0 /\ req.fbReturn = 0 /\ req.runReturn = 0 /\ req.fulfil = 0
     /\ \A i \in Items : downloads[i] = 0 /\ returnReqs[i] = 0

C11_Witness ==
  /\ args.title # None
  /\ args.title \notin obs.startLoans
  /\ brief = [mediaType |-> "Mp3", status |-> "CAN_HOLD"]
  /\ cache # << >>
  /\ pc = "raised"
  /\ exc = [kind |-> "Exception", escapes |-> {"download_books"}]

\* C12 (as stated): a failed borrow ends the run with exit code 1 before any
\* download_item or return_item of run, and a run that ends in any other way
\* exits with code 0.
C12_OnlyBorrowFailureExitsOne ==
  /\ pc = "exited" => exitCode = 1
  /\ (pc \in Terminal /\ pc # "exited") => exitCode = 0

\* C12 (amended): a failed borrow ends the run with exit code 1 before any
\* download_item or return_item of run; a run that ends with its generator
\* exhausted exits with code 0, and a run ended by an uncaught exception
\* exits with status 1 too.
C12_ExitCodes ==
  /\ (req.borrow > 0 /\ ~success /\ pc \notin BorrowPcs \cup {"raised"}) =>
       /\ pc \in {"run_borrowed", "exited"}
       /\ req.runReturn = 0 /\ req.fulfil = 0
       /\ \A i \in Items : downloads[i] = 0
  /\ pc = "exited" => (exitCode = 1 /\ ~success /\ req.borrow > 0)
  /\ pc = "done" => exitCode = 0
  /\ pc = "raised" => exitCode = 1
  /\ pc \notin Terminal => exitCode = -1

C12_Witness ==
  /\ pc = "exited"
  /\ exitCode = 1
  /\ req.borrow = 2
  /\ req.fbReturn = 1

\* C13: when a borrow request is answered with a reported error other than
\* TOO_MANY_LOANS, borrow issues no return_item request, no cache refresh and
\* no second borrow request, leaves the cache unchanged and returns false.
C13_OtherErrorNoRetry ==
  [][(pc = "borrow_req" /\ pc' # "borrow_req" /\ obs'.borrowAnswer = "error") =>
       /\ pc' = "run_borrowed"
       /\ success' = FALSE
       /\ cache' = cache
       /\ serverLoans' = serverLoans
       /\ returnReqs' = returnReqs
       /\ req' = [req EXCEPT !.borrow = Sat(@)]]_vars

C13_Witness ==
  /\ pc = "run_borrowed"
  /\ obs.borrowAnswer = "error"
  /\ cache # << >>
  /\ ~success
  /\ req.fbReturn = 0

\* C15: get_brief_metadata returns the cached entry without a request when
\* the item is cached; on a miss it performs the detail lookup and, when the
\* lookup succeeds, the cache holds the record under that item id afterwards.
C15_LookupPopulatesCache ==
  [][(pc \in {"run_brief", "dl_brief"} /\ pc' # pc) =>
       LET m == IF pc = "run_brief" THEN args.title ELSE books[idx] IN
       /\ m \in Range(cache) =>
            (obs'.briefAnswer = "cached" /\ req'.lookup = req.lookup)
       /\ m \notin Range(cache) =>
            /\ req'.lookup = Sat(req.lookup)
            /\ obs'.briefAnswer = "ok" => m \in Range(cache')]_vars

\* C16: every return_item request of the borrow fallback targets an item
\* that is on loan on the server at that moment and is not the item being
\* borrowed.
C16_FallbackReturnsALoan ==
  pc = "borrow_return" =>
    (to_return \in Range(serverLoans) /\ to_return # args.title)

\* C18: if the return_item request of the borrow fallback fails (return_book
\* returns False), borrow returns false without refreshing the cache and
\* without a second borrow request.
C18_FailedReturnNoRetry ==
  [][(/\ pc = "borrow_return" /\ pc' # "borrow_return"
      /\ obs'.returnAnswer \in {"status_not_200", "undecodable", "error", "failed"}) =>
       /\ pc' = "run_borrowed"
       /\ success' = FALSE
       /\ cache' = cache
       /\ req'.fbRefresh = req.fbRefresh
       /\ req'.list = req.list
       /\ req'.borrow = req.borrow]_vars

C18_Witness ==
  /\ pc = "run_borrowed"
  /\ obs.returnAnswer = "failed"
  /\ ~success
  /\ req.fbReturn = 1 /\ req.fbRefresh = 0 /\ req.borrow = 1

\* The chapter paths a first download into an empty directory uses, by
\* position in zip(audiobook_playlist, items)
Targets ==
  LET dir == OutputDirectory(dl.book_id, dl.authors, dl.title)
      width == MaxChapterIdxLength(dl.items)
  IN  [k \in 1..ZipLen |->
         JoinPath(dir, OutputFilename(k, dl.items[k], dl.audiobook_playlist[k],
                                      width))]

\* C14: re-invoking download_item when every target chapter file already
\* exists issues no chapter byte-transfer request, writes no chapter file
\* and returns the same output directory path as the invocation that created
\* the files.
C14_RerunIsIdempotent ==
  (/\ pc \in {"dlc_loop", "dlc_done", "raised"}
   /\ Range(Targets) \subseteq dl.filesAtStart) =>
    /\ dl.transfers = 0
    /\ dl.written = {}
    /\ dl.files = dl.filesAtStart
    /\ pc # "raised"
    /\ pc = "dlc_done" =>
         /\ dl.result = dl.output_directory
         /\ \A d \in dl.writerDirs : d = dl.result

C14_Witness ==
  /\ pc = "dlc_done"
  /\ dl.invocation = 2
  /\ ZipLen >= 2
  /\ Range(Targets) \subseteq dl.writtenBefore
  /\ Range(Targets) \subseteq dl.filesAtStart
  /\ dl.writerDirs = {dl.result}

\* C17: a chapter's file name depends only on its position, its title, its
\* URL extension and the total chapter count: a skipped chapter still takes
\* its sequence number, a re-run after a partial download writes exactly the
\* missing chapters under the names a fresh run would use, and the names of
\* one download are pairwise distinct.
C17_NamesByPosition ==
  pc \in {"dlc_loop", "dlc_done", "raised"} =>
    LET t == Targets IN
    /\ \A j, k \in 1..ZipLen : j # k => t[j] # t[k]
    /\ (pc = "dlc_loop" /\ dl.pos <= ZipLen) => OutputFilepath = t[dl.pos]
    /\ dl.written = { t[k] : k \in 1..(dl.pos - 1) } \ dl.filesAtStart
    /\ pc = "dlc_done" =>
         /\ dl.written = Range(t) \ dl.filesAtStart
         /\ dl.files = dl.filesAtStart \cup Range(t)

C17_Witness ==
  LET t == Targets IN
  /\ pc = "dlc_done"
  /\ dl.invocation = 2
  /\ dl.writtenBefore # {}
  /\ \E j, k \in 1..ZipLen :
       j < k /\ t[j] \in dl.writtenBefore /\ t[k] \in dl.written

====
